---- MODULE Spec2Model ----
(***************************************************************************)
(* Model of TrafficLightController (trafficLights.js, kept in the sources  *)
(* as src/unnamed/part_003): the fixed-timer cycle and the adaptive phase  *)
(* scheduler with its combined efficiency/fairness scoring.                *)
(*                                                                         *)
(* Times are milliseconds, as in the source.  Scores are kept multiplied   *)
(* by ScoreScale (1000) so that  carsWaiting * (waitTime / 1000)  stays an *)
(* exact integer; every comparison of the source is scaled accordingly.   *)
(***************************************************************************)
EXTENDS Integers, FiniteSets, Sequences, TLC

VARIABLES lights, mode, settings, fixedState, adaptiveState, locals, last,
          redElapsed, greenElapsed, evals, twin, sensorSystem, road

vars == <<lights, mode, settings, fixedState, adaptiveState, locals, last,
          redElapsed, greenElapsed, evals, twin, sensorSystem, road>>

----------------------------------------------------------------------------
(* CONFIG (config.js): identifiers used by the controller                  *)

NORTH == "north"
SOUTH == "south"
EAST == "east"
WEST == "west"
DIRECTIONS == {NORTH, SOUTH, EAST, WEST}

RED == "red"
YELLOW == "yellow"
GREEN == "green"

FIXED == "fixed"
ADAPTIVE == "adaptive"

null == "null"

(* settings.YELLOW_DURATION and settings.GREEN_DURATION, in ms *)
YELLOW_DURATION == 3000
GREEN_DURATION == 10000
DEFAULT_SETTINGS ==
    [GREEN_DURATION |-> GREEN_DURATION, YELLOW_DURATION |-> YELLOW_DURATION]

(* constants of adaptiveState and literals of updateAdaptiveMode *)
greenLockDuration == 5000
maxGreenDuration == 100000
minGreenDuration == 30000
fastTrackDelay == 5000
redClearanceDuration == 2000
fixedRedWait == 3000
(* switchThreshold = 1.5 = switchThresholdNum / switchThresholdDen *)
switchThresholdNum == 3
switchThresholdDen == 2
(* waitTime / 1000: milliseconds to seconds *)
ScoreScale == 1000

----------------------------------------------------------------------------
(* Bounds of the model                                                     *)

(* largest value the phase timer may reach while no pair is active *)
MaxIdleTimer == 3000

(* tick durations offered to update(), in ms *)
DeltaTimes == {0, 1000, 100000}

(* tick durations, negative ones included, offered where update() is     *)
(* called without any check of its arguments; phaseTimer is followed     *)
(* down to -MaxRewind and the green lock up to MaxLock                   *)
AnyDeltaTimes == {-1000, 1000, 100000}
MaxRewind == 2000
MaxLock == 7000

Max(a, b) == IF a >= b THEN a ELSE b

ZeroDirs == [d \in DIRECTIONS |-> 0]
NoData == [d \in {} |-> 0]

(* one per-direction entry of the sensor data *)
Entry(w, t, a, p) ==
    [carsWaiting |-> w, waitTime |-> t, carsApproaching |-> a,
     carsPassed |-> p, totalCarsDetected |-> w + a]

ZeroEntry == Entry(0, 0, 0, 0)

(* a sensorData argument: absent (null/undefined) or an object that has   *)
(* entries for some of the directions                                      *)
Absent == [defined |-> FALSE, data |-> NoData]
Data(f) == [defined |-> TRUE, data |-> f]

Only(d, e) == [x \in {d} |-> e]
Both(d1, e1, d2, e2) == [x \in {d1, d2} |-> IF x = d1 THEN e1 ELSE e2]
Full(n, s, e, w) ==
    [x \in DIRECTIONS |-> IF x = NORTH THEN n ELSE IF x = SOUTH THEN s
                          ELSE IF x = EAST THEN e ELSE w]

Snapshots ==
    { Absent,
      Data(Full(ZeroEntry, ZeroEntry, ZeroEntry, ZeroEntry)),
      (* both pairs at 4.0: north 1 x 4 s, east 2 x 2 s *)
      Data(Both(NORTH, Entry(1, 4000, 0, 0), EAST, Entry(2, 2000, 0, 0))),
      (* NS 0, WE 5.0 from the west alone: 1 x 4 s + 1 approaching *)
      Data(Only(WEST, Entry(1, 4000, 1, 0))),
      (* NS 8.0, WE 1.0: north 2 x 4 s, one car approaching from the east *)
      Data(Both(NORTH, Entry(2, 4000, 0, 0), EAST, Entry(0, 0, 1, 0))),
      (* NS passed 1 + approaching 1 = 2, WE approaching 3: 3 = 2 x 1.5 *)
      Data(Full(Entry(0, 0, 1, 1), ZeroEntry, Entry(0, 0, 3, 0), ZeroEntry)),
      (* NS 10 + 5 + 3 = 18, WE 5 x 6 s + 4 = 34 *)
      Data(Full(Entry(0, 0, 0, 10), Entry(0, 0, 3, 5),
                Entry(5, 6000, 0, 0), Entry(0, 0, 4, 0))) }

(* snapshots for the two scores: north and east each with no car, one car *)
(* waiting for 4 s, five cars waiting with the front one at 4 s, or one   *)
(* car waiting for 4 s with two approaching and three passed; south and   *)
(* west empty                                                             *)
ScoreEntries ==
    { ZeroEntry, Entry(1, 4000, 0, 0), Entry(5, 4000, 0, 0),
      Entry(1, 4000, 2, 3) }

ScoreSnapshots ==
    { Data(Full(n, ZeroEntry, e, ZeroEntry)) :
        n \in ScoreEntries, e \in ScoreEntries }

ScoreDeltaTimes == {3000}

(* Date.now(): the value of a reading that is not followed, and the      *)
(* readings two controllers can get for the same call                    *)
unread == "unread"
ClockReadings == {1, 2}

(* tick durations offered to the two controllers *)
TwinDeltaTimes == {1000, 100000}

(* tick durations of the running loop: all positive *)
LiveDeltaTimes == {1000, 4000, 100000}

(* tick durations of the fixed mode: within a phase, a phase, two phases *)
FixedDeltaTimes == {1000, 4000, 20000}

(* tick durations of a run that changes the mode, for the updates in the *)
(* adaptive and in the fixed mode                                        *)
ModeDeltaTimes == {1000, 10000}

ModeFixedDeltaTimes == {4000, 10000}

(* snapshots of a run that changes the mode: none, a car waiting and one *)
(* approaching in the west                                              *)
ModeSnapshots == { Absent, Data(Only(WEST, Entry(1, 4000, 1, 0))) }

(* the snapshots offered together with the unchecked arguments *)
FewSnapshots ==
    { Absent,
      Data(Only(WEST, Entry(1, 4000, 1, 0))),
      Data(Both(NORTH, Entry(2, 4000, 0, 0), EAST, Entry(0, 0, 1, 0))) }

(* settings objects a caller can pass to initialize(): the defaults, a    *)
(* yellow duration of 0 and a negative green duration                     *)
SettingsOffered ==
    { DEFAULT_SETTINGS,
      [GREEN_DURATION |-> GREEN_DURATION, YELLOW_DURATION |-> 0],
      [GREEN_DURATION |-> -1000, YELLOW_DURATION |-> YELLOW_DURATION] }

----------------------------------------------------------------------------
(* The controller object: c = [lights, mode, settings, fixedState,         *)
(* adaptiveState, locals, now]; locals holds the consts computed by the    *)
(* last switch evaluation, now what Date.now() returns during the call     *)

NoLocals ==
    [evaluated |-> FALSE, phaseTimer |-> 0, currentScore |-> 0,
     waitingScore |-> 0, minGreenExceeded |-> FALSE,
     maxGreenExceeded |-> FALSE, fastTrackSwitch |-> FALSE,
     thresholdExceeded |-> FALSE, shouldSwitch |-> FALSE, reason |-> "none"]

this ==
    [lights |-> lights, mode |-> mode, settings |-> settings,
     fixedState |-> fixedState, adaptiveState |-> adaptiveState,
     locals |-> locals, now |-> unread]

setAllLightsRed(c) == [c EXCEPT !.lights = [d \in DIRECTIONS |-> RED]]

setFixedLightState(c) ==
    LET p == c.fixedState.currentPhase
        col(d) == IF p = 0 /\ d \in {NORTH, SOUTH} THEN GREEN
                  ELSE IF p = 1 /\ d \in {NORTH, SOUTH} THEN YELLOW
                  ELSE IF p = 3 /\ d \in {WEST, EAST} THEN GREEN
                  ELSE IF p = 4 /\ d \in {WEST, EAST} THEN YELLOW
                  ELSE RED
    IN  [c EXCEPT !.lights = [d \in DIRECTIONS |-> col(d)]]

initializeFixedMode(c) ==
    setFixedLightState(
        [c EXCEPT !.fixedState =
            [currentPhase |-> 0, phaseTimer |-> 0, isActive |-> TRUE]])

initializeAdaptiveMode(c) ==
    setAllLightsRed(
        [c EXCEPT !.adaptiveState =
            [@ EXCEPT !.currentPair = null,
                      !.currentPhase = RED,
                      !.phaseTimer = 0,
                      !.isActive = TRUE,
                      !.greenPairScores = ZeroDirs,
                      !.redPairScores = ZeroDirs,
                      !.redPairWaitTimes = ZeroDirs,
                      !.greenPairApproaching = ZeroDirs,
                      !.redPairApproaching = ZeroDirs,
                      !.lastSwitchTime = 0,
                      !.firstCarTriggered = FALSE]])

initialize(c, m, newSettings) ==
    LET c1 == [c EXCEPT !.mode = m, !.settings = newSettings]
    IN  IF m = FIXED THEN initializeFixedMode(c1)
        ELSE IF m = ADAPTIVE THEN initializeAdaptiveMode(c1)
        ELSE c1

constructor ==
    [lights |-> [d \in DIRECTIONS |-> RED],
     mode |-> FIXED,
     settings |-> DEFAULT_SETTINGS,
     fixedState |-> [currentPhase |-> 0, phaseTimer |-> 0, isActive |-> FALSE],
     adaptiveState |->
        [currentPair |-> null, currentPhase |-> RED, phaseTimer |-> 0,
         isActive |-> FALSE,
         greenPairScores |-> ZeroDirs, redPairScores |-> ZeroDirs,
         redPairWaitTimes |-> ZeroDirs, greenPairApproaching |-> ZeroDirs,
         redPairApproaching |-> ZeroDirs,
         lastSwitchTime |-> 0,
         firstCarTriggered |-> FALSE, nextPair |-> null,
         greenLockTime |-> 0, currentSensorData |-> Absent],
     locals |-> NoLocals,
     now |-> unread]

----------------------------------------------------------------------------
(* FIXED MODE                                                              *)

(* variant: a yellow phase is followed by the green of the other pair *)
advanceFixedPhase_skipsRed(c) ==
    setFixedLightState(
        [c EXCEPT !.fixedState.currentPhase =
                      IF @ \in {1, 4} THEN (@ + 2) % 6 ELSE (@ + 1) % 6,
                  !.fixedState.phaseTimer = 0])

advanceFixedPhase(c) ==
    setFixedLightState(
        [c EXCEPT !.fixedState.currentPhase = (@ + 1) % 6,
                  !.fixedState.phaseTimer = 0])

updateFixedMode(c, deltaTime) ==
    LET c1 == [c EXCEPT !.fixedState.phaseTimer = @ + deltaTime]
        p == c1.fixedState.currentPhase
        t == c1.fixedState.phaseTimer
        limit == IF p \in {0, 3} THEN c.settings.GREEN_DURATION
                 ELSE IF p \in {1, 4} THEN c.settings.YELLOW_DURATION
                 ELSE fixedRedWait
    IN  IF t >= limit THEN advanceFixedPhase(c1) ELSE c1

----------------------------------------------------------------------------
(* ADAPTIVE MODE                                                           *)

PairDirs(pair) == IF pair = "NS" THEN {NORTH, SOUTH}
                  ELSE IF pair = "WE" THEN {WEST, EAST} ELSE {}

(* Sum of f over a set of directions *)
RECURSIVE SumOver(_, _)
SumOver(S, f) ==
    IF S = {} THEN 0
    ELSE LET d == CHOOSE x \in S : TRUE IN f[d] + SumOver(S \ {d}, f)

(* variant: a direction without an entry counts as one approaching car *)
EntryOf_phantomCar(sensorData, d) ==
    IF d \in DOMAIN sensorData.data THEN sensorData.data[d]
    ELSE Entry(0, 0, 1, 0)

(* sensorData[direction] || { all zero } *)
EntryOf(sensorData, d) ==
    IF d \in DOMAIN sensorData.data THEN sensorData.data[d] ELSE ZeroEntry

switchToAdaptivePair(c, pair) ==
    [c EXCEPT !.adaptiveState.currentPair = pair,
              !.adaptiveState.lastSwitchTime = c.now]

(* variant: a green phase also starts with the pair's approaching counts *)
(* at 0                                                                  *)
startAdaptiveGreen_resetsApproaching(c) ==
    LET pair == c.adaptiveState.currentPair
    IN  [c EXCEPT !.adaptiveState =
            [@ EXCEPT !.currentPhase = GREEN,
                      !.phaseTimer = 0,
                      !.greenLockTime = greenLockDuration,
                      !.greenPairScores =
                          [d \in DIRECTIONS |->
                              IF d \in PairDirs(pair) THEN 0 ELSE @[d]],
                      !.greenPairApproaching =
                          [d \in DIRECTIONS |->
                              IF d \in PairDirs(pair) THEN 0 ELSE @[d]]]]

(* variant: a green phase starts with the carsPassed counts it finds *)
startAdaptiveGreen_keepsPassed(c) ==
    [c EXCEPT !.adaptiveState =
        [@ EXCEPT !.currentPhase = GREEN,
                  !.phaseTimer = 0,
                  !.greenLockTime = greenLockDuration]]

(* variant: a green phase starts without the lock *)
startAdaptiveGreen_noLock(c) ==
    LET pair == c.adaptiveState.currentPair
    IN  [c EXCEPT !.adaptiveState =
            [@ EXCEPT !.currentPhase = GREEN,
                      !.phaseTimer = 0,
                      !.greenLockTime = 0,
                      !.greenPairScores =
                          [d \in DIRECTIONS |->
                              IF d \in PairDirs(pair) THEN 0 ELSE @[d]]]]

startAdaptiveGreen(c) ==
    LET pair == c.adaptiveState.currentPair
    IN  [c EXCEPT !.adaptiveState =
            [@ EXCEPT !.currentPhase = GREEN,
                      !.phaseTimer = 0,
                      !.greenLockTime = greenLockDuration,
                      !.greenPairScores =
                          [d \in DIRECTIONS |->
                              IF d \in PairDirs(pair) THEN 0 ELSE @[d]]]]

(* variant: the phase timer is not reset when the yellow phase starts *)
startAdaptiveYellow_keepsTimer(c) ==
    [c EXCEPT !.adaptiveState.currentPhase = YELLOW]

startAdaptiveYellow(c) ==
    [c EXCEPT !.adaptiveState.currentPhase = YELLOW,
              !.adaptiveState.phaseTimer = 0]

(* variant: the phase timer is not reset when the clearance starts *)
startAdaptiveRed_keepsTimer(c) ==
    [c EXCEPT !.adaptiveState.currentPhase = RED]

(* variant: the clearance queues the pair that gets the next green *)
startAdaptiveRed_queuesPair(c) ==
    [c EXCEPT !.adaptiveState.currentPhase = RED,
              !.adaptiveState.phaseTimer = 0,
              !.adaptiveState.nextPair =
                  IF c.adaptiveState.currentPair = "WE" THEN "NS" ELSE "WE"]

(* variant: the end of yellow also runs the clearance and starts the green *)
(* of the other pair                                                       *)
startAdaptiveRed_skipsClearance(c) ==
    startAdaptiveGreen(
        switchToAdaptivePair(c,
            IF c.adaptiveState.currentPair = "WE" THEN "NS" ELSE "WE"))

startAdaptiveRed(c) ==
    [c EXCEPT !.adaptiveState.currentPhase = RED,
              !.adaptiveState.phaseTimer = 0]

(* variant: the phase colour is applied to all four directions *)
setAdaptiveLightState_allDirections(c) ==
    LET a == c.adaptiveState
        state == IF a.currentPhase = GREEN THEN GREEN
                 ELSE IF a.currentPhase = YELLOW THEN YELLOW ELSE RED
    IN  [c EXCEPT !.lights =
            [d \in DIRECTIONS |->
                IF a.currentPair \in {"WE", "NS"} THEN state ELSE RED]]

(* variant: only the north and the west follow the phase of their pair *)
setAdaptiveLightState_oneDirection(c) ==
    LET a == c.adaptiveState
        state == IF a.currentPhase = GREEN THEN GREEN
                 ELSE IF a.currentPhase = YELLOW THEN YELLOW ELSE RED
    IN  [c EXCEPT !.lights =
            [d \in DIRECTIONS |->
                IF a.currentPair \in {"WE", "NS"}
                   /\ d \in PairDirs(a.currentPair) \cap {NORTH, WEST}
                THEN state ELSE RED]]

setAdaptiveLightState(c) ==
    LET a == c.adaptiveState
        state == IF a.currentPhase = GREEN THEN GREEN
                 ELSE IF a.currentPhase = YELLOW THEN YELLOW ELSE RED
    IN  [c EXCEPT !.lights =
            [d \in DIRECTIONS |->
                IF a.currentPair \in {"WE", "NS"} /\ d \in PairDirs(a.currentPair)
                THEN state ELSE RED]]

(* variant: the current pair itself is returned *)
getOtherPair_samePair(c) ==
    IF c.adaptiveState.currentPair = null THEN null
    ELSE c.adaptiveState.currentPair

(* variant: no pair follows the current one *)
getOtherPair_none(c) == null

getOtherPair(c) ==
    IF c.adaptiveState.currentPair = null THEN null
    ELSE IF c.adaptiveState.currentPair = "WE" THEN "NS" ELSE "WE"

(* (carsWaiting x firstWait_s) + carsApproaching, times ScoreScale *)
calculateInitialPairScore(pair, sensorData) ==
    LET score == [d \in DIRECTIONS |->
                    LET e == EntryOf(sensorData, d)
                    IN  e.carsWaiting * e.waitTime
                        + ScoreScale * e.carsApproaching]
    IN  IF pair = "NS" THEN score[NORTH] + score[SOUTH]
        ELSE score[WEST] + score[EAST]

(* variant: WE is accepted with a score of 0 *)
getFirstDetectedPair_acceptsZero(c) ==
    IF ~c.adaptiveState.currentSensorData.defined THEN null
    ELSE LET sensorData == c.adaptiveState.currentSensorData
             nsScore == calculateInitialPairScore("NS", sensorData)
             weScore == calculateInitialPairScore("WE", sensorData)
         IN  IF nsScore > 0 /\ nsScore >= weScore THEN "NS"
             ELSE IF weScore >= 0 THEN "WE"
             ELSE null

(* variant: NS is taken whenever it has any demand *)
getFirstDetectedPair_nsFirst(c) ==
    IF ~c.adaptiveState.currentSensorData.defined THEN null
    ELSE LET sensorData == c.adaptiveState.currentSensorData
             nsScore == calculateInitialPairScore("NS", sensorData)
             weScore == calculateInitialPairScore("WE", sensorData)
         IN  IF nsScore > 0 THEN "NS"
             ELSE IF weScore > 0 THEN "WE"
             ELSE null

(* variant: NS needs a strictly higher score than WE *)
getFirstDetectedPair_strict(c) ==
    IF ~c.adaptiveState.currentSensorData.defined THEN null
    ELSE LET sensorData == c.adaptiveState.currentSensorData
             nsScore == calculateInitialPairScore("NS", sensorData)
             weScore == calculateInitialPairScore("WE", sensorData)
         IN  IF nsScore > 0 /\ nsScore > weScore THEN "NS"
             ELSE IF weScore > 0 THEN "WE"
             ELSE null

getFirstDetectedPair(c) ==
    IF ~c.adaptiveState.currentSensorData.defined THEN null
    ELSE LET sensorData == c.adaptiveState.currentSensorData
             nsScore == calculateInitialPairScore("NS", sensorData)
             weScore == calculateInitialPairScore("WE", sensorData)
         IN  IF nsScore > 0 /\ nsScore >= weScore THEN "NS"
             ELSE IF weScore > 0 THEN "WE"
             ELSE null

(* variant: the counts of all four directions are added up *)
calculateCurrentGreenPairScore_allDirections(c) ==
    LET a == c.adaptiveState
    IN  IF a.currentPair = null THEN 0
        ELSE ScoreScale * (SumOver(DIRECTIONS, a.greenPairScores)
                 + SumOver(DIRECTIONS, a.greenPairApproaching))

(* carsPassed_green + carsApproaching_green, times ScoreScale *)
calculateCurrentGreenPairScore(c) ==
    LET a == c.adaptiveState
    IN  IF a.currentPair = null THEN 0
        ELSE ScoreScale * (SumOver(PairDirs(a.currentPair), a.greenPairScores)
                 + SumOver(PairDirs(a.currentPair), a.greenPairApproaching))

(* variant: the wait of the front car is not multiplied by the number of *)
(* waiting cars                                                          *)
calculateWaitingRedPairScore_frontOnly(c) ==
    LET a == c.adaptiveState
        waitingPair == getOtherPair(c)
        score == [d \in DIRECTIONS |->
                    a.redPairWaitTimes[d]
                    + ScoreScale * a.redPairApproaching[d]]
    IN  IF waitingPair = null THEN 0
        ELSE SumOver(PairDirs(waitingPair), score)

(* (carsWaiting x firstWait_s) + carsApproaching_red, times ScoreScale *)
calculateWaitingRedPairScore(c) ==
    LET a == c.adaptiveState
        waitingPair == getOtherPair(c)
        score == [d \in DIRECTIONS |->
                    a.redPairScores[d] * a.redPairWaitTimes[d]
                    + ScoreScale * a.redPairApproaching[d]]
    IN  IF waitingPair = null THEN 0
        ELSE SumOver(PairDirs(waitingPair), score)

(* variant: without an active pair, a tick that hands in no snapshot keeps *)
(* the stored one                                                          *)
updateAdaptiveLogic_keepsSnapshot(c, sensorDataArg, deltaTime) ==
    IF c.mode # ADAPTIVE \/ ~c.adaptiveState.isActive THEN c
    ELSE
    LET sensorData == IF ~sensorDataArg.defined
                      THEN Data(Full(ZeroEntry, ZeroEntry, ZeroEntry, ZeroEntry))
                      ELSE sensorDataArg
        a == c.adaptiveState
        E(d) == EntryOf(sensorData, d)
        green == PairDirs(a.currentPair)
        red == DIRECTIONS \ green
    IN  IF a.currentPair \in {"NS", "WE"}
        THEN [c EXCEPT !.adaptiveState =
                [@ EXCEPT
                  !.currentSensorData = sensorData,
                  !.greenPairScores =
                      [d \in DIRECTIONS |->
                          IF d \in green THEN E(d).carsPassed ELSE @[d]],
                  !.greenPairApproaching =
                      [d \in DIRECTIONS |->
                          IF d \in green THEN E(d).carsApproaching ELSE @[d]],
                  !.redPairScores =
                      [d \in DIRECTIONS |->
                          IF d \in red THEN E(d).carsWaiting ELSE @[d]],
                  !.redPairWaitTimes =
                      [d \in DIRECTIONS |->
                          IF d \in red THEN E(d).waitTime ELSE @[d]],
                  !.redPairApproaching =
                      [d \in DIRECTIONS |->
                          IF d \in red THEN E(d).carsApproaching ELSE @[d]]]]
        ELSE [c EXCEPT !.adaptiveState =
                [@ EXCEPT
                  !.currentSensorData = IF sensorDataArg.defined
                                       THEN sensorData ELSE @,
                  !.greenPairScores =
                      [d \in DIRECTIONS |-> E(d).totalCarsDetected]]]

(* updateAdaptiveLogic(sensorData, deltaTime): store the snapshot and     *)
(* distribute it over the green/red aggregates of the current pair         *)
updateAdaptiveLogic(c, sensorDataArg, deltaTime) ==
    IF c.mode # ADAPTIVE \/ ~c.adaptiveState.isActive THEN c
    ELSE
    LET sensorData == IF ~sensorDataArg.defined
                      THEN Data(Full(ZeroEntry, ZeroEntry, ZeroEntry, ZeroEntry))
                      ELSE sensorDataArg
        a == c.adaptiveState
        E(d) == EntryOf(sensorData, d)
        green == PairDirs(a.currentPair)
        red == DIRECTIONS \ green
    IN  IF a.currentPair \in {"NS", "WE"}
        THEN [c EXCEPT !.adaptiveState =
                [@ EXCEPT
                  !.currentSensorData = sensorData,
                  !.greenPairScores =
                      [d \in DIRECTIONS |->
                          IF d \in green THEN E(d).carsPassed ELSE @[d]],
                  !.greenPairApproaching =
                      [d \in DIRECTIONS |->
                          IF d \in green THEN E(d).carsApproaching ELSE @[d]],
                  !.redPairScores =
                      [d \in DIRECTIONS |->
                          IF d \in red THEN E(d).carsWaiting ELSE @[d]],
                  !.redPairWaitTimes =
                      [d \in DIRECTIONS |->
                          IF d \in red THEN E(d).waitTime ELSE @[d]],
                  !.redPairApproaching =
                      [d \in DIRECTIONS |->
                          IF d \in red THEN E(d).carsApproaching ELSE @[d]]]]
        ELSE [c EXCEPT !.adaptiveState =
                [@ EXCEPT
                  !.currentSensorData = sensorData,
                  !.greenPairScores =
                      [d \in DIRECTIONS |-> E(d).totalCarsDetected]]]

(* the four switching rules of updateAdaptiveMode *)
(* variant: the minimum green is taken as 3 s *)
minGreenExceeded_early(phaseTimer) == phaseTimer >= 3000

(* variant: the minimum green is as long as the maximum green *)
minGreenExceeded_late(phaseTimer) == phaseTimer >= maxGreenDuration

minGreenExceeded(phaseTimer) == phaseTimer >= minGreenDuration

maxGreenExceeded(phaseTimer) == phaseTimer >= maxGreenDuration

(* variant: the fast track does not ask for demand on the red pair *)
fastTrackSwitch_noDemand(currentScore, waitingScore, phaseTimer) ==
    currentScore = 0 /\ phaseTimer > fastTrackDelay

fastTrackSwitch(currentScore, waitingScore, phaseTimer) ==
    currentScore = 0 /\ waitingScore > 0 /\ phaseTimer > fastTrackDelay

(* variant: the comparison is not strict *)
thresholdExceeded_notStrict(currentScore, waitingScore) ==
    waitingScore * switchThresholdDen >= currentScore * switchThresholdNum

thresholdExceeded(currentScore, waitingScore) ==
    waitingScore * switchThresholdDen > currentScore * switchThresholdNum

(* variant: the minimum green gates the score rules and there is no cap *)
shouldSwitch_noCap(minGreen, maxGreen, fastTrack, threshold) ==
    minGreen /\ (fastTrack \/ threshold)

(* variant: the minimum green gates the score rules *)
shouldSwitch_minGate(minGreen, maxGreen, fastTrack, threshold) ==
    maxGreen \/ (minGreen /\ (fastTrack \/ threshold))

(* variant: the minimum green is not a trigger of its own *)
shouldSwitch_noMin(minGreen, maxGreen, fastTrack, threshold) ==
    maxGreen \/ fastTrack \/ threshold

shouldSwitch(minGreen, maxGreen, fastTrack, threshold) ==
    minGreen \/ maxGreen \/ fastTrack \/ threshold

(* variant: a green phase that survives the evaluation is not locked again *)
evaluateSwitch_noRearm(c) ==
    LET timer == c.adaptiveState.phaseTimer
        currentScore == calculateCurrentGreenPairScore(c)
        waitingScore == calculateWaitingRedPairScore(c)
        minGreen == minGreenExceeded(timer)
        maxGreen == maxGreenExceeded(timer)
        fastTrack == fastTrackSwitch(currentScore, waitingScore, timer)
        threshold == thresholdExceeded(currentScore, waitingScore)
        switch == shouldSwitch(minGreen, maxGreen, fastTrack, threshold)
        reason == IF ~switch THEN "none"
                  ELSE IF maxGreen THEN "MAX GREEN (100s)"
                  ELSE IF minGreen THEN "MIN GREEN (30s)"
                  ELSE IF fastTrack THEN "FAST-TRACK (Green Idle + Red Demand)"
                  ELSE "THRESHOLD EXCEEDED"
        c1 == [c EXCEPT !.locals =
                 [evaluated |-> TRUE, phaseTimer |-> timer,
                  currentScore |-> currentScore, waitingScore |-> waitingScore,
                  minGreenExceeded |-> minGreen, maxGreenExceeded |-> maxGreen,
                  fastTrackSwitch |-> fastTrack, thresholdExceeded |-> threshold,
                  shouldSwitch |-> switch, reason |-> reason]]
    IN  IF switch THEN startAdaptiveYellow(c1)
        ELSE c1

(* variant: the length of the green phase is taken from the wall clock, *)
(* 30 s to the unit of its readings                                     *)
evaluateSwitch_wallClock(c) ==
    LET timer == minGreenDuration
                    * (c.now - c.adaptiveState.lastSwitchTime)
        currentScore == calculateCurrentGreenPairScore(c)
        waitingScore == calculateWaitingRedPairScore(c)
        minGreen == minGreenExceeded(timer)
        maxGreen == maxGreenExceeded(timer)
        fastTrack == fastTrackSwitch(currentScore, waitingScore, timer)
        threshold == thresholdExceeded(currentScore, waitingScore)
        switch == shouldSwitch(minGreen, maxGreen, fastTrack, threshold)
        reason == IF ~switch THEN "none"
                  ELSE IF maxGreen THEN "MAX GREEN (100s)"
                  ELSE IF minGreen THEN "MIN GREEN (30s)"
                  ELSE IF fastTrack THEN "FAST-TRACK (Green Idle + Red Demand)"
                  ELSE "THRESHOLD EXCEEDED"
        c1 == [c EXCEPT !.locals =
                 [evaluated |-> TRUE, phaseTimer |-> timer,
                  currentScore |-> currentScore, waitingScore |-> waitingScore,
                  minGreenExceeded |-> minGreen, maxGreenExceeded |-> maxGreen,
                  fastTrackSwitch |-> fastTrack, thresholdExceeded |-> threshold,
                  shouldSwitch |-> switch, reason |-> reason]]
    IN  IF switch THEN startAdaptiveYellow(c1)
        ELSE [c1 EXCEPT !.adaptiveState.greenLockTime = greenLockDuration]

(* the switch evaluation of a green phase whose lock has run out *)
evaluateSwitch(c) ==
    LET timer == c.adaptiveState.phaseTimer
        currentScore == calculateCurrentGreenPairScore(c)
        waitingScore == calculateWaitingRedPairScore(c)
        minGreen == minGreenExceeded(timer)
        maxGreen == maxGreenExceeded(timer)
        fastTrack == fastTrackSwitch(currentScore, waitingScore, timer)
        threshold == thresholdExceeded(currentScore, waitingScore)
        switch == shouldSwitch(minGreen, maxGreen, fastTrack, threshold)
        reason == IF ~switch THEN "none"
                  ELSE IF maxGreen THEN "MAX GREEN (100s)"
                  ELSE IF minGreen THEN "MIN GREEN (30s)"
                  ELSE IF fastTrack THEN "FAST-TRACK (Green Idle + Red Demand)"
                  ELSE "THRESHOLD EXCEEDED"
        c1 == [c EXCEPT !.locals =
                 [evaluated |-> TRUE, phaseTimer |-> timer,
                  currentScore |-> currentScore, waitingScore |-> waitingScore,
                  minGreenExceeded |-> minGreen, maxGreenExceeded |-> maxGreen,
                  fastTrackSwitch |-> fastTrack, thresholdExceeded |-> threshold,
                  shouldSwitch |-> switch, reason |-> reason]]
    IN  IF switch THEN startAdaptiveYellow(c1)
        ELSE [c1 EXCEPT !.adaptiveState.greenLockTime = greenLockDuration]

(* the green lock is still running after this tick's decrement, so the   *)
(* tick returns before the score comparison                              *)
(* variant: a tick that begins with the lock running never evaluates *)
greenLockActive_wholeTick(greenLockTime, deltaTime) ==
    greenLockTime > 0

(* variant: the lock never holds an evaluation back *)
greenLockActive_never(greenLockTime, deltaTime) == FALSE

greenLockActive(greenLockTime, deltaTime) ==
    greenLockTime > 0 /\ Max(0, greenLockTime - deltaTime) > 0

(* the yellow phase and the red clearance have run their time *)
(* variant: the yellow phase ends only after more than YELLOW_DURATION *)
yellowExpired_strict(c) ==
    c.adaptiveState.phaseTimer > c.settings.YELLOW_DURATION

yellowExpired(c) ==
    c.adaptiveState.phaseTimer >= c.settings.YELLOW_DURATION

clearanceExpired(c) ==
    c.adaptiveState.phaseTimer >= redClearanceDuration

updateAdaptiveMode(c, deltaTime) ==
    IF ~c.adaptiveState.isActive THEN c
    ELSE
    LET c0 == [c EXCEPT !.adaptiveState.phaseTimer = @ + deltaTime,
                        !.locals = NoLocals]
        a == c0.adaptiveState
    IN  IF a.currentPair = null
        THEN LET firstDetectedPair == getFirstDetectedPair(c0)
             IN  IF firstDetectedPair # null
                 THEN setAdaptiveLightState(
                        [startAdaptiveGreen(
                            switchToAdaptivePair(c0, firstDetectedPair))
                         EXCEPT !.adaptiveState.firstCarTriggered = TRUE])
                 ELSE setAdaptiveLightState(c0)
        ELSE IF a.currentPhase = GREEN
        THEN LET lock == IF a.greenLockTime > 0
                         THEN Max(0, a.greenLockTime - deltaTime)
                         ELSE a.greenLockTime
                 c1 == [c0 EXCEPT !.adaptiveState.greenLockTime = lock]
             IN  IF greenLockActive(a.greenLockTime, deltaTime)
                 THEN setAdaptiveLightState(c1)
                 ELSE setAdaptiveLightState(evaluateSwitch(c1))
        ELSE IF a.currentPhase = YELLOW
        THEN IF yellowExpired(c0)
             THEN setAdaptiveLightState(startAdaptiveRed(c0))
             ELSE setAdaptiveLightState(c0)
        ELSE IF a.currentPhase = RED
        THEN IF clearanceExpired(c0)
             THEN LET nextPair == IF a.nextPair # null THEN a.nextPair
                                  ELSE getOtherPair(c0)
                  IN  setAdaptiveLightState(
                        [startAdaptiveGreen(switchToAdaptivePair(c0, nextPair))
                         EXCEPT !.adaptiveState.nextPair = null])
             ELSE setAdaptiveLightState(c0)
        ELSE setAdaptiveLightState(c0)

update(c, deltaTime, m, newSettings) ==
    LET c1 == [c EXCEPT !.mode = m, !.settings = newSettings]
    IN  IF m = FIXED
        THEN updateFixedMode(
                IF ~c1.fixedState.isActive THEN initializeFixedMode(c1) ELSE c1,
                deltaTime)
        ELSE IF m = ADAPTIVE
        THEN updateAdaptiveMode(
                IF ~c1.adaptiveState.isActive THEN initializeAdaptiveMode(c1)
                ELSE c1,
                deltaTime)
        ELSE c1

reset(c) ==
    IF c.mode = FIXED
    THEN initializeFixedMode([c EXCEPT !.fixedState.isActive = FALSE])
    ELSE IF c.mode = ADAPTIVE
    THEN initializeAdaptiveMode([c EXCEPT !.adaptiveState.isActive = FALSE])
    ELSE c

(* one frame of the simulation loop in adaptive mode: the sensor snapshot  *)
(* is handed to updateAdaptiveLogic, then update advances the scheduler    *)
tick(c, deltaTime, sensorData, newSettings) ==
    update(updateAdaptiveLogic(c, sensorData, deltaTime), deltaTime, ADAPTIVE,
           newSettings)

----------------------------------------------------------------------------
(* Car (cars.js) and SensorSystem (sensors.js), for the cars that come    *)
(* from one direction.  A car is the record of the fields the sensor and   *)
(* the car's own update read; its position is one of four places along    *)
(* its way.  A reference to a car is its index in the manager's array, a  *)
(* missing reference or timestamp (null in the source, falsy as 0 is) is 0 *)

unset == 0

Epoch == 1000

ClockStep == 1000

MaxClock == 3000

NumCars == 2

PlaceAfter(place) ==
    CASE place = "far" -> "zone"
      [] place = "zone" -> "intersection"
      [] OTHER -> "exited"

(* Car constructor; speed is 0 or, for any speed above 0, 1; stoppedAt     *)
(* (not a field of the source) keeps when the car last came to a stop      *)
Car ==
    [state |-> "approaching", place |-> "far", speed |-> 0,
     waitStartTime |-> unset, totalWaitTime |-> 0,
     passedDuringGreen |-> FALSE, stoppedAt |-> unset]

isWaiting(car) == car.state = "waiting"

getWaitTime(car, now) ==
    IF car.waitStartTime # unset
    THEN now - car.waitStartTime
    ELSE car.totalWaitTime

(* the sensor's zone lies before the stop line, the intersection after it *)
isCarInDetectionZone(car) == car.place = "zone"

isInIntersection(car) == car.place = "intersection"

Stopped(car, now) ==
    [car EXCEPT !.state = "waiting",
                !.speed = 0,
                !.stoppedAt = IF car.state = "waiting" THEN @ ELSE now]

(* shouldStop stands for the three reasons of the source to stop here: the *)
(* light with the stop line near, a car ahead, the stop line reached;      *)
(* braked for a braking that has taken all the speed                       *)
updateApproaching(car, light, now, shouldStop, braked) ==
    LET paced == [car EXCEPT !.speed = IF light # GREEN /\ braked
                                        THEN 0 ELSE 1]
    IN  IF shouldStop
        THEN IF light \in {RED, YELLOW} /\ car.waitStartTime = unset
             THEN [Stopped(car, now) EXCEPT !.waitStartTime = now,
                                            !.totalWaitTime = 0]
             ELSE Stopped(car, now)
        ELSE IF isInIntersection(car)
        THEN IF light = GREEN
             THEN [paced EXCEPT !.state = "crossing"]
             ELSE IF car.waitStartTime = unset
                  THEN [Stopped(car, now) EXCEPT !.waitStartTime = now]
                  ELSE Stopped(car, now)
        ELSE paced

updateCrossing(car, light, now) ==
    IF light = RED /\ ~isInIntersection(car)
    THEN Stopped(car, now)
    ELSE [car EXCEPT !.speed = 1]

(* variant: a waiting car also proceeds on yellow *)
updateWaiting_onYellow(car, light, now, carTooClose) ==
    LET timed == IF car.waitStartTime # unset
                 THEN [car EXCEPT !.speed = 0,
                                  !.totalWaitTime = now - car.waitStartTime]
                 ELSE [car EXCEPT !.speed = 0]
    IN  IF light \in {GREEN, YELLOW} /\ ~carTooClose
        THEN [timed EXCEPT !.state = "crossing", !.waitStartTime = unset,
                           !.totalWaitTime = 0, !.speed = 1]
        ELSE [timed EXCEPT !.state = "waiting", !.speed = 0]

updateWaiting(car, light, now, carTooClose) ==
    LET timed == IF car.waitStartTime # unset
                 THEN [car EXCEPT !.speed = 0,
                                  !.totalWaitTime = now - car.waitStartTime]
                 ELSE [car EXCEPT !.speed = 0]
    IN  IF light = GREEN /\ ~carTooClose
        THEN [timed EXCEPT !.state = "crossing", !.waitStartTime = unset,
                           !.totalWaitTime = 0, !.speed = 1]
        ELSE [timed EXCEPT !.state = "waiting", !.speed = 0]

(* Car.update: the car moves on unless it waits, then its state follows    *)
Car_update(car, light, now, moves, blocked, braked) ==
    IF car.place = "exited"
    THEN car
    ELSE IF car.state = "waiting"
    THEN updateWaiting(car, light, now, blocked)
    ELSE LET moved == IF moves THEN [car EXCEPT !.place = PlaceAfter(@)]
                      ELSE car
         IN  IF moved.place = "exited"
             THEN [moved EXCEPT !.state = "completed",
                                !.speed = 1,
                                !.passedDuringGreen = FALSE,
                                !.stoppedAt = unset]
             ELSE IF car.state = "approaching"
             THEN updateApproaching(moved, light, now, blocked, braked)
             ELSE updateCrossing(moved, light, now)

(* SensorSystem: sensorData and waitingCars of the direction *)
initializeSensors ==
    [sensorData |-> [carsWaiting |-> 0, carsApproaching |-> 0,
                     carsPassed |-> 0, waitTime |-> 0,
                     firstCarWaitStart |-> unset],
     waitingCars |-> unset]

(* update, first part: the counters that every frame starts from zero *)
resetFrame(s) ==
    [s EXCEPT !.sensorData.carsWaiting = 0, !.sensorData.carsApproaching = 0]

(* update, second part: the light of the direction has turned green *)
greenStarted(s, light, prevLight) ==
    IF /\ light # null /\ prevLight # null
       /\ light # prevLight /\ light = GREEN /\ prevLight # GREEN
    THEN [s EXCEPT !.sensorData.carsPassed = 0,
                   !.sensorData.firstCarWaitStart = unset,
                   !.waitingCars = unset]
    ELSE s

(* update, third part: one car of the loop over the array.  The lights are *)
(* all red only if the light of the direction is.                          *)
processCar(s, cars, i, light, now) ==
    LET car == cars[i]
        inZone == isCarInDetectionZone(car)
        isRedLight == light = RED
        isGreenLight == light = GREEN
        passes == inZone /\ isGreenLight /\ ~car.passedDuringGreen
        s1 == IF passes
              THEN [s EXCEPT !.sensorData.carsPassed = @ + 1] ELSE s
        s2 == IF isRedLight /\ inZone
              THEN IF isWaiting(car)
                   THEN LET counted ==
                                [s1 EXCEPT !.sensorData.carsWaiting = @ + 1]
                        IN  IF counted.waitingCars = unset
                            THEN [counted EXCEPT
                                    !.waitingCars = i,
                                    !.sensorData.firstCarWaitStart =
                                        IF @ # unset THEN @
                                        ELSE IF car.waitStartTime # unset
                                        THEN car.waitStartTime
                                        ELSE now]
                            ELSE counted
                   ELSE [s1 EXCEPT !.sensorData.carsApproaching = @ + 1]
              ELSE IF isGreenLight /\ inZone /\ ~isWaiting(car)
              THEN [s1 EXCEPT !.sensorData.carsApproaching = @ + 1]
              ELSE s1
    IN  s2

flagCar(car, light) ==
    LET inZone == isCarInDetectionZone(car)
    IN  IF inZone /\ light = GREEN
        THEN [car EXCEPT !.passedDuringGreen = TRUE]
        ELSE IF ~inZone THEN [car EXCEPT !.passedDuringGreen = FALSE]
        ELSE car

RECURSIVE processCars(_, _, _, _, _)
processCars(s, cars, i, light, now) ==
    IF i > Len(cars)
    THEN s
    ELSE processCars(processCar(s, cars, i, light, now), cars, i + 1,
                     light, now)

(* update, last part: the wait time of the front car, if one is tracked *)
frontWait(s, cars, now) ==
    IF s.waitingCars # unset
    THEN LET car == cars[s.waitingCars]
             timed == [s EXCEPT !.sensorData.waitTime =
                                    getWaitTime(car, now)]
         IN  IF ~isWaiting(car)
             THEN [timed EXCEPT !.waitingCars = unset,
                                !.sensorData.firstCarWaitStart = unset]
             ELSE timed
    ELSE s

SensorSystem_update(s, cars, light, prevLight, now) ==
    frontWait(processCars(greenStarted(resetFrame(s), light, prevLight),
                          cars, 1, light, now),
              cars, now)

----------------------------------------------------------------------------
(* State machine                                                           *)

AllRed(l) == \A d \in DIRECTIONS : l[d] = RED

Install(c) ==
    /\ lights' = c.lights
    /\ mode' = c.mode
    /\ settings' = c.settings
    /\ fixedState' = c.fixedState
    /\ adaptiveState' = c.adaptiveState
    /\ locals' = c.locals

(* what the operation that led to the current state started from;          *)
(* storedDemand: it started with no active pair and a stored snapshot that *)
(* shows demand                                                            *)
Record(op, deltaTime, sensorData) ==
    last' = [op |-> op, deltaTime |-> deltaTime, sensorData |-> sensorData,
             mode |-> mode, isActive |-> adaptiveState.isActive,
             currentPair |-> adaptiveState.currentPair,
             currentPhase |-> adaptiveState.currentPhase,
             phaseTimer |-> adaptiveState.phaseTimer,
             greenLockTime |-> adaptiveState.greenLockTime,
             storedDemand |-> /\ adaptiveState.currentPair = null
                              /\ getFirstDetectedPair(this) # null,
             fixedPhase |-> fixedState.currentPhase,
             fixedTimer |-> fixedState.phaseTimer,
             lights |-> lights]

(* evaluations of the current green phase: the deltaTime accumulated in    *)
(* the phase at the latest one and its distance to the one before (-1:     *)
(* there is none)                                                          *)
NoEvals == [timer |-> -1, gap |-> -1]

CountEvals(c, deltaTime) ==
    evals' =
        IF c.locals.evaluated
        THEN [timer |-> greenElapsed + deltaTime,
              gap |-> IF evals.timer >= 0
                      THEN greenElapsed + deltaTime - evals.timer ELSE -1]
        ELSE IF /\ adaptiveState.currentPhase = GREEN
                /\ adaptiveState.currentPair # null
                /\ c.adaptiveState.currentPhase = GREEN
                /\ c.adaptiveState.currentPair = adaptiveState.currentPair
        THEN evals
        ELSE NoEvals

(* a step of the controller leaves the cars and the sensor as they are *)
Parked == sensorSystem' = sensorSystem /\ road' = road

(* a step of the one controller leaves the second one alone *)
Alone == twin' = twin /\ Parked

Init ==
    /\ twin = constructor
    /\ lights = constructor.lights
    /\ mode = constructor.mode
    /\ settings = constructor.settings
    /\ fixedState = constructor.fixedState
    /\ adaptiveState = constructor.adaptiveState
    /\ locals = constructor.locals
    /\ last = [op |-> "constructor", deltaTime |-> 0, sensorData |-> Absent,
               mode |-> FIXED, isActive |-> FALSE, currentPair |-> null,
               currentPhase |-> RED, phaseTimer |-> 0, greenLockTime |-> 0,
               storedDemand |-> FALSE, fixedPhase |-> 0, fixedTimer |-> 0,
               lights |-> constructor.lights]
    /\ redElapsed = 0
    /\ greenElapsed = 0
    /\ evals = NoEvals
    /\ sensorSystem = initializeSensors
    /\ road = [cars |-> [i \in 1..NumCars |-> Car], lightStates |-> RED,
               now |-> Epoch]

Initialize ==
    /\ Install([initialize(this, ADAPTIVE, DEFAULT_SETTINGS)
                 EXCEPT !.locals = NoLocals])
    /\ Record("initialize", 0, Absent)
    /\ Alone
    /\ redElapsed' = 0
    /\ greenElapsed' = 0
    /\ evals' = NoEvals

Reset ==
    /\ Install([reset(this) EXCEPT !.locals = NoLocals])
    /\ Record("reset", 0, Absent)
    /\ Alone
    /\ redElapsed' = 0
    /\ greenElapsed' = 0
    /\ evals' = NoEvals

Tick ==
    \E deltaTime \in DeltaTimes, sensorData \in Snapshots :
        /\ adaptiveState.currentPair = null
              => adaptiveState.phaseTimer + deltaTime <= MaxIdleTimer
        /\ Install(tick(this, deltaTime, sensorData, settings))
        /\ Record("tick", deltaTime, sensorData)
        /\ Alone
        /\ CountEvals(tick(this, deltaTime, sensorData, settings), deltaTime)
        /\ redElapsed' = IF AllRed(lights) THEN redElapsed + deltaTime ELSE 0
        /\ greenElapsed' = IF /\ adaptiveState.currentPair # null
                              /\ adaptiveState.currentPhase = GREEN
                              /\ \E d \in DIRECTIONS : lights[d] = GREEN
                           THEN greenElapsed + deltaTime ELSE 0

Next == Tick \/ Initialize \/ Reset

Spec == Init /\ [][Next]_vars

(* The same controller driven by a caller that passes whatever it has:     *)
(* negative tick durations and settings with non-positive durations       *)
NoHistory ==
    /\ redElapsed' = 0
    /\ greenElapsed' = 0
    /\ evals' = NoEvals

InitializeWith ==
    \E newSettings \in SettingsOffered :
        /\ Install([initialize(this, ADAPTIVE, newSettings)
                     EXCEPT !.locals = NoLocals])
        /\ Record("initialize", 0, Absent)
        /\ Alone
        /\ NoHistory

TickAny ==
    \E deltaTime \in AnyDeltaTimes, sensorData \in FewSnapshots :
        /\ adaptiveState.currentPair = null
              => adaptiveState.phaseTimer + deltaTime <= MaxIdleTimer
        /\ adaptiveState.phaseTimer + deltaTime >= -MaxRewind
        /\ adaptiveState.greenLockTime - deltaTime <= MaxLock
        /\ Install(tick(this, deltaTime, sensorData, settings))
        /\ Record("tick", deltaTime, sensorData)
        /\ Alone
        /\ NoHistory

ResetAny ==
    /\ Install([reset(this) EXCEPT !.locals = NoLocals])
    /\ Record("reset", 0, Absent)
    /\ Alone
    /\ NoHistory

NextUnchecked == TickAny \/ InitializeWith \/ ResetAny

SpecUnchecked == Init /\ [][NextUnchecked]_vars

(* The controller ticked with the snapshots made to tell the scores apart  *)
ScoreTick ==
    \E deltaTime \in ScoreDeltaTimes, sensorData \in ScoreSnapshots :
        /\ adaptiveState.currentPair = null
              => adaptiveState.phaseTimer + deltaTime <= MaxIdleTimer
        /\ Install(tick(this, deltaTime, sensorData, settings))
        /\ Record("tick", deltaTime, sensorData)
        /\ Alone
        /\ NoHistory

NextScores == ScoreTick \/ Initialize

SpecScores == Init /\ [][NextScores]_vars

(* Two controllers that get the same calls with the same arguments, each   *)
(* with its own readings of the clock                                      *)
At(c, now) == [c EXCEPT !.now = now]

TwinInitialize ==
    /\ Install([initialize(this, ADAPTIVE, DEFAULT_SETTINGS)
                 EXCEPT !.locals = NoLocals])
    /\ twin' = [initialize(twin, ADAPTIVE, DEFAULT_SETTINGS)
                 EXCEPT !.locals = NoLocals]
    /\ Record("initialize", 0, Absent)
    /\ NoHistory
    /\ Parked

TwinReset ==
    /\ Install([reset(this) EXCEPT !.locals = NoLocals])
    /\ twin' = [reset(twin) EXCEPT !.locals = NoLocals]
    /\ Record("reset", 0, Absent)
    /\ NoHistory
    /\ Parked

TwinTick ==
    \E deltaTime \in TwinDeltaTimes, sensorData \in FewSnapshots,
       now1 \in ClockReadings, now2 \in ClockReadings :
        /\ adaptiveState.currentPair = null
              => adaptiveState.phaseTimer + deltaTime <= MaxIdleTimer
        /\ Install(tick(At(this, now1), deltaTime, sensorData, settings))
        /\ twin' = tick(At(twin, now2), deltaTime, sensorData, twin.settings)
        /\ Record("tick", deltaTime, sensorData)
        /\ NoHistory
        /\ Parked

NextTwin == TwinTick \/ TwinInitialize \/ TwinReset

SpecTwin == Init /\ [][NextTwin]_vars

(* The controller once it runs: the simulation loop calls tick on every    *)
(* frame with the time since the frame before, which is positive, and     *)
(* never stops calling it                                                  *)
LiveTick ==
    \E deltaTime \in LiveDeltaTimes, sensorData \in FewSnapshots :
        /\ adaptiveState.currentPair = null
              => adaptiveState.phaseTimer + deltaTime <= MaxIdleTimer
        /\ Install(tick(this, deltaTime, sensorData, settings))
        /\ Record("tick", deltaTime, sensorData)
        /\ Alone
        /\ NoHistory

NextLive == LiveTick

(* what a tick leaves in the record of the last call: so long as the loop  *)
(* may call tick, it does                                                  *)
TickArrives ==
    \E deltaTime \in LiveDeltaTimes, sensorData \in FewSnapshots :
        /\ adaptiveState.currentPair = null
              => adaptiveState.phaseTimer + deltaTime <= MaxIdleTimer
        /\ Record("tick", deltaTime, sensorData)

SpecLive == Init /\ [][NextLive]_vars /\ WF_last(TickArrives)

(* The controller run in the fixed mode: the loop hands the snapshot to    *)
(* updateAdaptiveLogic and calls update with the fixed mode                *)
FixedTick ==
    \E deltaTime \in FixedDeltaTimes, sensorData \in FewSnapshots :
        /\ Install(update(updateAdaptiveLogic(this, sensorData, deltaTime),
                          deltaTime, FIXED, settings))
        /\ Record("tick", deltaTime, sensorData)
        /\ Alone
        /\ redElapsed' = IF AllRed(lights) THEN redElapsed + deltaTime ELSE 0
        /\ greenElapsed' = 0
        /\ evals' = NoEvals

FixedInitialize ==
    /\ Install([initialize(this, FIXED, DEFAULT_SETTINGS)
                 EXCEPT !.locals = NoLocals])
    /\ Record("initialize", 0, Absent)
    /\ Alone
    /\ NoHistory

NextFixed == FixedTick \/ FixedInitialize \/ Reset

SpecFixed == Init /\ [][NextFixed]_vars

(* The controller run with a mode that the caller may change from one      *)
(* frame to the next: updateAdaptiveLogic with the snapshot, then update   *)
(* with the mode of the frame                                              *)
FixedUpdate ==
    \E deltaTime \in ModeFixedDeltaTimes, sensorData \in ModeSnapshots :
        /\ Install(update(updateAdaptiveLogic(this, sensorData, deltaTime),
                          deltaTime, FIXED, settings))
        /\ Record("tick", deltaTime, sensorData)
        /\ Alone
        /\ NoHistory

AdaptiveUpdate ==
    \E deltaTime \in ModeDeltaTimes, sensorData \in ModeSnapshots :
        /\ adaptiveState.currentPair = null
              => adaptiveState.phaseTimer + deltaTime <= MaxIdleTimer
        /\ Install(update(updateAdaptiveLogic(this, sensorData, deltaTime),
                          deltaTime, ADAPTIVE, settings))
        /\ Record("tick", deltaTime, sensorData)
        /\ Alone
        /\ NoHistory

NextModes == FixedUpdate \/ AdaptiveUpdate

SpecModes == Init /\ [][NextModes]_vars

(* The cars of the direction, its light and its sensor.  A frame of the    *)
(* simulation loop is one change on the road (a car's update, a change of  *)
(* the light by the controller, time that passes) followed by the update   *)
(* of the sensor, which gets the light of the frame before as well.        *)
Still ==
    UNCHANGED <<lights, mode, settings, fixedState, adaptiveState, locals,
                last, redElapsed, greenElapsed, evals, twin>>

Frame(cars, lightStates, now) ==
    /\ sensorSystem' = SensorSystem_update(sensorSystem, cars, lightStates,
                                           road.lightStates, now)
    /\ road' = [cars |-> [i \in 1..NumCars |-> flagCar(cars[i], lightStates)],
                lightStates |-> lightStates, now |-> now]
    /\ Still

Drive ==
    \E i \in 1..NumCars, moves \in BOOLEAN, blocked \in BOOLEAN,
       braked \in BOOLEAN :
        Frame([road.cars EXCEPT ![i] =
                  Car_update(@, road.lightStates, road.now, moves, blocked,
                             braked)],
              road.lightStates, road.now)

Signal ==
    Frame(road.cars,
          CASE road.lightStates = RED -> GREEN
            [] road.lightStates = GREEN -> YELLOW
            [] OTHER -> RED,
          road.now)

Elapse ==
    /\ road.now < MaxClock
    /\ Frame(road.cars, road.lightStates, road.now + ClockStep)

NextSensors == Drive \/ Signal \/ Elapse

SpecSensors == Init /\ [][NextSensors]_vars

----------------------------------------------------------------------------
(* Vocabulary of the properties                                            *)

PAIRS == {"NS", "WE"}

Opposite(pair) == IF pair = "NS" THEN "WE" ELSE "NS"

NonRed(l, pair) == \E d \in PairDirs(pair) : l[d] # RED

Shows(l, pair, colour) == \A d \in PairDirs(pair) : l[d] = colour

(* the scheduler is initialized in adaptive mode and no pair is active *)
Idle == mode = ADAPTIVE /\ adaptiveState.isActive
        /\ adaptiveState.currentPair = null

(* the last operation was a tick of the initialized adaptive scheduler *)
Ticked == last.op = "tick" /\ last.mode = ADAPTIVE /\ last.isActive

TickedFromIdle == Ticked /\ last.currentPair = null

TickedFrom(phase) ==
    Ticked /\ last.currentPair \in PAIRS /\ last.currentPhase = phase

(* initial demand of a pair in a snapshot, in thousandths: sum over the    *)
(* directions of the pair of carsWaiting x frontWait (ms) + carsApproaching *)
Demand(sensorData, pair) ==
    LET contribution(d) ==
            IF sensorData.defined /\ d \in DOMAIN sensorData.data
            THEN sensorData.data[d].carsWaiting * sensorData.data[d].waitTime
                 + 1000 * sensorData.data[d].carsApproaching
            ELSE 0
    IN  IF pair = "NS" THEN contribution(NORTH) + contribution(SOUTH)
        ELSE contribution(EAST) + contribution(WEST)

----------------------------------------------------------------------------
(* C1 - Exclusivity: in every reachable state at most one pair shows a     *)
(* colour other than red; whenever a pair is green or yellow, both         *)
(* directions of the other pair are red.                                   *)
C1_Exclusivity ==
    /\ \A d \in DIRECTIONS : lights[d] \in {RED, YELLOW, GREEN}
    /\ \A pair \in PAIRS :
          NonRed(lights, pair) => Shows(lights, Opposite(pair), RED)

(* a tick has left WE yellow while NS is red *)
C1_Witness ==
    /\ Ticked
    /\ Shows(lights, "WE", YELLOW)
    /\ Shows(lights, "NS", RED)

----------------------------------------------------------------------------
(* C2 - Clearance safety: while a pair is in its red clearance all four    *)
(* directions are red; when a tick turns a pair green after a clearance,   *)
(* the lights were all red before that tick (so no pair turns green in the *)
(* tick in which the other stops being yellow) and the deltaTime           *)
(* accumulated while they were all red is at least 2000 ms.                *)
C2_ClearanceSafety ==
    /\ (mode = ADAPTIVE /\ adaptiveState.currentPair \in PAIRS
            /\ adaptiveState.currentPhase = RED) => AllRed(lights)
    /\ \A pair \in PAIRS :
          (/\ Ticked
           /\ last.currentPair \in PAIRS
           /\ Shows(lights, pair, GREEN)
           /\ ~Shows(last.lights, pair, GREEN))
          => /\ AllRed(last.lights)
             /\ redElapsed >= redClearanceDuration

(* WE has just turned green after the clearance that followed NS's yellow, *)
(* with exactly 2000 ms of all-red time                                    *)
C2_Witness ==
    /\ TickedFrom(RED)
    /\ last.currentPair = "NS"
    /\ Shows(lights, "WE", GREEN)
    /\ redElapsed = redClearanceDuration

(* C3 - End of the red clearance: the tick that ends a clearance makes the *)
(* pair opposite to the one that was yellow the active pair, green, with   *)
(* phaseTimer 0 and the green lock at greenLockDuration; a tick never      *)
(* starts a green for the pair that held the previous green.               *)
C3_ClearanceEnd ==
    /\ (TickedFrom(YELLOW) /\ adaptiveState.currentPhase = RED)
          => adaptiveState.currentPair = last.currentPair
    /\ (TickedFrom(RED) /\ adaptiveState.currentPhase = GREEN)
          => /\ adaptiveState.currentPair = Opposite(last.currentPair)
             /\ adaptiveState.phaseTimer = 0
             /\ adaptiveState.greenLockTime = greenLockDuration
             /\ Shows(lights, Opposite(last.currentPair), GREEN)
             /\ Shows(lights, last.currentPair, RED)
    /\ (Ticked /\ last.currentPair \in PAIRS /\ last.currentPhase # GREEN
            /\ adaptiveState.currentPhase = GREEN)
          => adaptiveState.currentPair # last.currentPair

(* the clearance after WE's yellow has ended and NS is green *)
C3_Witness ==
    /\ TickedFrom(RED)
    /\ last.currentPair = "WE"
    /\ adaptiveState.currentPair = "NS"
    /\ adaptiveState.currentPhase = GREEN

(* C4 - Before first demand: while the adaptive scheduler has no active    *)
(* pair all four directions are red, and a tick in that state whose        *)
(* snapshot gives both pairs an initial demand of 0 leaves it there.       *)
C4_BeforeFirstDemand ==
    /\ Idle => AllRed(lights) /\ adaptiveState.currentPhase = RED
    /\ (TickedFromIdle /\ Demand(last.sensorData, "NS") = 0
            /\ Demand(last.sensorData, "WE") = 0)
          => Idle /\ AllRed(lights)

(* an idle scheduler was ticked with an all-zero snapshot and is still idle *)
C4_Witness ==
    /\ TickedFromIdle
    /\ last.sensorData.defined
    /\ Demand(last.sensorData, "NS") = 0
    /\ Demand(last.sensorData, "WE") = 0
    /\ Idle
    /\ adaptiveState.phaseTimer > 0

C6_TieBreak ==
    TickedFromIdle
    => LET ns == Demand(last.sensorData, "NS")
           we == Demand(last.sensorData, "WE")
       IN  /\ (ns > 0 /\ ns = we) => adaptiveState.currentPair = "NS"
           /\ adaptiveState.currentPair = "WE" => we > ns
           /\ adaptiveState.currentPair =
                 (IF ns > 0 /\ ns >= we THEN "NS"
                  ELSE IF we > 0 THEN "WE" ELSE null)

(* both pairs were at 4.0 and NS was made green *)
C6_Witness ==
    /\ TickedFromIdle
    /\ Demand(last.sensorData, "NS") = 4000
    /\ Demand(last.sensorData, "WE") = 4000
    /\ adaptiveState.currentPair = "NS"
    /\ adaptiveState.currentPhase = GREEN

----------------------------------------------------------------------------
(* the last operation was a tick in which the switch evaluation ran *)
Evaluated == TickedFrom(GREEN) /\ locals.evaluated

(* the tick turned the active pair from green to yellow *)
TurnedYellow == TickedFrom(GREEN) /\ adaptiveState.currentPhase = YELLOW

(* the rules, restated on the scores and the timer of the evaluation *)
FastTrackHolds ==
    locals.currentScore = 0 /\ locals.waitingScore > 0
    /\ locals.phaseTimer > 5000

MaxElapsedHolds == locals.phaseTimer >= 100000

MinElapsedHolds == locals.phaseTimer >= 30000

(* fairness > efficiency x 1.5 *)
ThresholdHolds == 2 * locals.waitingScore > 3 * locals.currentScore

(* C7 - Green floor, as claimed: a green that turns yellow while its       *)
(* phaseTimer is below 30000 ms does so only if fastTrack or maxElapsed    *)
(* holds, never because of thresholdExceeded alone.                        *)
C7_GreenFloor ==
    (TurnedYellow /\ ~MinElapsedHolds) => (FastTrackHolds \/ MaxElapsedHolds)

(* C7 - Green floor, amended: a green that turns yellow while its          *)
(* phaseTimer is below 30000 ms does so in an evaluated tick (lock run     *)
(* out) in which fastTrack, maxElapsed or thresholdExceeded holds.         *)
C7_GreenFloorAmended ==
    (TurnedYellow /\ ~MinElapsedHolds)
    => /\ locals.evaluated
       /\ last.currentPair = adaptiveState.currentPair
       /\ (FastTrackHolds \/ MaxElapsedHolds \/ ThresholdHolds)

(* a green turned yellow at 5 s on the threshold rule alone: 34 > 18 x 1.5 *)
C7_Witness ==
    /\ TurnedYellow
    /\ locals.phaseTimer = 5000
    /\ locals.currentScore = 18000
    /\ locals.waitingScore = 34000
    /\ ~FastTrackHolds

(* C8 - Green ceiling: no tick ends with a pair green and its phaseTimer   *)
(* at or beyond maxGreenDuration; an evaluation that finds the timer there *)
(* turns the pair yellow, whatever the scores.                             *)
C8_GreenCeiling ==
    /\ (mode = ADAPTIVE /\ adaptiveState.currentPair \in PAIRS
            /\ adaptiveState.currentPhase = GREEN)
          => adaptiveState.phaseTimer < maxGreenDuration
    /\ (TickedFrom(GREEN) /\ MaxElapsedHolds)
          => /\ adaptiveState.currentPhase = YELLOW
             /\ Shows(lights, adaptiveState.currentPair, YELLOW)

(* a flowing green without sufficient demand on the red side (2 against 3) *)
(* was ended at 100 s or later                                             *)
C8_Witness ==
    /\ TurnedYellow
    /\ MaxElapsedHolds
    /\ locals.currentScore = 2000
    /\ locals.waitingScore = 3000

(* C9 - Fast-track: an evaluation with efficiency 0, fairness above 0 and  *)
(* the phaseTimer beyond 5000 ms turns the active pair yellow in that      *)
(* tick, also below the minimum green.                                     *)
C9_FastTrack ==
    (Evaluated /\ locals.currentScore = 0 /\ locals.waitingScore > 0
        /\ locals.phaseTimer > greenLockDuration)
    => /\ adaptiveState.currentPhase = YELLOW
       /\ adaptiveState.phaseTimer = 0
       /\ adaptiveState.currentPair = last.currentPair
       /\ Shows(lights, adaptiveState.currentPair, YELLOW)

(* efficiency 0 and fairness 5.0 at 10 s: yellow well before 30 s *)
C9_Witness ==
    /\ Evaluated
    /\ locals.currentScore = 0
    /\ locals.waitingScore = 5000
    /\ locals.phaseTimer = 10000
    /\ adaptiveState.currentPhase = YELLOW

(* C10 - Threshold switch: an evaluation with fairness > efficiency x 1.5  *)
(* shows the active pair yellow at the end of the tick; the comparison is  *)
(* strict, so with fairness <= efficiency x 1.5 the threshold condition    *)
(* does not hold and, below the minimum green, the pair stays green.       *)
C10_ThresholdSwitch ==
    Evaluated
    => /\ ThresholdHolds
            => /\ adaptiveState.currentPhase = YELLOW
               /\ adaptiveState.currentPair = last.currentPair
               /\ Shows(lights, adaptiveState.currentPair, YELLOW)
               /\ Shows(lights, Opposite(adaptiveState.currentPair), RED)
       /\ locals.thresholdExceeded <=> ThresholdHolds
       /\ (~ThresholdHolds /\ ~MinElapsedHolds)
            => adaptiveState.currentPhase = GREEN

(* efficiency 18 and fairness 34 at an evaluation below the minimum green *)
C10_Witness ==
    /\ Evaluated
    /\ locals.currentScore = 18000
    /\ locals.waitingScore = 34000
    /\ ~MinElapsedHolds
    /\ adaptiveState.currentPhase = YELLOW
    /\ Shows(lights, adaptiveState.currentPair, YELLOW)

(* efficiency 2 and fairness 3 = 2 x 1.5: the green is kept *)
C10_Boundary ==
    /\ Evaluated
    /\ locals.currentScore = 2000
    /\ locals.waitingScore = 3000
    /\ adaptiveState.currentPhase = GREEN

----------------------------------------------------------------------------
C12_LockSkips ==
    (TickedFrom(GREEN) /\ last.greenLockTime > 0)
    => /\ ~locals.evaluated
       /\ adaptiveState.currentPhase = GREEN
       /\ adaptiveState.greenLockTime
              = Max(0, last.greenLockTime - last.deltaTime)

(* C12 - Lock skips evaluation (amended): a green tick that begins with    *)
(* the lock above 0 decrements it by deltaTime, not below 0. While the     *)
(* lock is still above 0 after the decrement no switch evaluation is       *)
(* performed and the tick ends green with the decremented lock; in the     *)
(* tick in which the lock reaches 0 the switch evaluation runs, on the     *)
(* phaseTimer of that tick. The lock is never below 0.                     *)
C12_LockSkipsAmended ==
    /\ adaptiveState.greenLockTime >= 0
    /\ (TickedFrom(GREEN) /\ last.greenLockTime > 0)
        => LET lock == Max(0, last.greenLockTime - last.deltaTime)
           IN  /\ lock > 0
                    => /\ ~locals.evaluated
                       /\ adaptiveState.currentPair = last.currentPair
                       /\ adaptiveState.currentPhase = GREEN
                       /\ adaptiveState.greenLockTime = lock
                       /\ Shows(lights, last.currentPair, GREEN)
               /\ lock = 0
                    => /\ locals.evaluated
                       /\ locals.phaseTimer
                              = last.phaseTimer + last.deltaTime

(* a green tick of 1000 ms took the lock from 5000 to 4000 without an      *)
(* evaluation                                                              *)
C12_Witness ==
    /\ TickedFrom(GREEN)
    /\ last.greenLockTime = greenLockDuration
    /\ last.deltaTime = 1000
    /\ adaptiveState.greenLockTime = 4000
    /\ ~locals.evaluated
    /\ adaptiveState.currentPhase = GREEN

(* the tick made a pair green that was not green before it *)
BecameGreen ==
    /\ Ticked
    /\ adaptiveState.currentPair \in PAIRS
    /\ adaptiveState.currentPhase = GREEN
    /\ ~(last.currentPair = adaptiveState.currentPair
         /\ last.currentPhase = GREEN)

(* C13 - Minimum green: every green phase, the first one after idle and    *)
(* every one after a red clearance, starts with the lock at                *)
(* greenLockDuration, and a green phase turns yellow only after at least   *)
(* greenLockDuration (5 s) of deltaTime accumulated in it, whatever the    *)
(* scores are.                                                             *)
C13_MinimumGreen ==
    /\ BecameGreen => adaptiveState.greenLockTime = greenLockDuration
    /\ TurnedYellow => greenElapsed >= greenLockDuration

(* a green phase turned yellow after exactly 5 s *)
C13_Witness ==
    /\ TurnedYellow
    /\ greenElapsed = greenLockDuration

(* C14 - Hysteresis re-arm: an evaluation that decides not to switch sets  *)
(* the lock back to greenLockDuration, and two consecutive evaluations     *)
(* within one green phase are at least greenLockDuration of accumulated    *)
(* deltaTime apart.                                                        *)
C14_HysteresisRearm ==
    /\ (Evaluated /\ adaptiveState.currentPhase = GREEN)
          => adaptiveState.greenLockTime = greenLockDuration
    /\ evals.gap >= 0 => evals.gap >= greenLockDuration

(* the second evaluation of a green phase, 5 s after the first, kept the   *)
(* pair green and re-armed the lock                                        *)
C14_Witness ==
    /\ Evaluated
    /\ evals.gap = greenLockDuration
    /\ evals.timer = 2 * greenLockDuration
    /\ adaptiveState.currentPhase = GREEN
    /\ adaptiveState.greenLockTime = greenLockDuration

----------------------------------------------------------------------------
(* C15 - Yellow timing: a yellow pair stays yellow, the other pair red, on *)
(* every tick that leaves phaseTimer below YELLOW_DURATION; the first tick *)
(* that takes phaseTimer to YELLOW_DURATION or more starts the red         *)
(* clearance, all four directions red and phaseTimer 0. A yellow phase is  *)
(* never followed directly by green.                                       *)
C15_YellowTiming ==
    /\ (mode = ADAPTIVE /\ adaptiveState.currentPair \in PAIRS
            /\ adaptiveState.currentPhase = YELLOW)
          => adaptiveState.phaseTimer < settings.YELLOW_DURATION
    /\ TickedFrom(YELLOW)
          => LET timer == last.phaseTimer + last.deltaTime
             IN  /\ adaptiveState.currentPair = last.currentPair
                 /\ adaptiveState.currentPhase # GREEN
                 /\ timer < settings.YELLOW_DURATION
                      => /\ adaptiveState.currentPhase = YELLOW
                         /\ adaptiveState.phaseTimer = timer
                         /\ Shows(lights, last.currentPair, YELLOW)
                         /\ Shows(lights, Opposite(last.currentPair), RED)
                 /\ timer >= settings.YELLOW_DURATION
                      => /\ adaptiveState.currentPhase = RED
                         /\ adaptiveState.phaseTimer = 0
                         /\ AllRed(lights)

(* the tick that took the yellow timer to exactly YELLOW_DURATION started  *)
(* the red clearance                                                       *)
C15_Witness ==
    /\ TickedFrom(YELLOW)
    /\ last.deltaTime > 0
    /\ last.phaseTimer + last.deltaTime = settings.YELLOW_DURATION
    /\ adaptiveState.currentPhase = RED
    /\ adaptiveState.phaseTimer = 0
    /\ AllRed(lights)

----------------------------------------------------------------------------
TickStep ==
    /\ last'.op = "tick"
    /\ mode = ADAPTIVE
    /\ adaptiveState.isActive

(* the step makes a pair green that was not green before it *)
BecomesGreen ==
    /\ TickStep
    /\ adaptiveState'.currentPair \in PAIRS
    /\ adaptiveState'.currentPhase = GREEN
    /\ ~(adaptiveState.currentPair = adaptiveState'.currentPair
         /\ adaptiveState.currentPhase = GREEN)

----------------------------------------------------------------------------
(* C17 - phaseTimer discipline: with deltaTime >= 0, a tick that stays in  *)
(* the same phase does not decrease phaseTimer (it adds deltaTime to it),  *)
(* and a tick that changes the phase (idle to green, green to yellow,      *)
(* yellow to red clearance, red clearance to green) ends with phaseTimer   *)
(* 0.                                                                      *)
C17_PhaseTimer ==
    Ticked
    => IF /\ adaptiveState.currentPair = last.currentPair
          /\ adaptiveState.currentPhase = last.currentPhase
       THEN /\ adaptiveState.phaseTimer >= last.phaseTimer
            /\ adaptiveState.phaseTimer = last.phaseTimer + last.deltaTime
       ELSE adaptiveState.phaseTimer = 0

(* a green tick of 1000 ms that stayed green advanced a running timer *)
C17_Witness ==
    /\ TickedFrom(GREEN)
    /\ adaptiveState.currentPhase = GREEN
    /\ last.deltaTime = 1000
    /\ last.phaseTimer > 0
    /\ adaptiveState.phaseTimer = last.phaseTimer + 1000

----------------------------------------------------------------------------
(* C18 - initialize postcondition: initialize or reset in adaptive mode,   *)
(* from any reachable state, leaves no active pair, the idle phase,        *)
(* phaseTimer 0, the green lock at 0 and all four directions red.          *)
C18_InitializePostcondition ==
    (last.op \in {"initialize", "reset"} /\ mode = ADAPTIVE)
    => /\ adaptiveState.isActive
       /\ adaptiveState.currentPair = null
       /\ adaptiveState.currentPhase = RED
       /\ adaptiveState.phaseTimer = 0
       /\ adaptiveState.greenLockTime = 0
       /\ AllRed(lights)

----------------------------------------------------------------------------
(* C19 - Negative deltaTime is rejected: a tick called with deltaTime < 0  *)
(* leaves the whole scheduler state unchanged: active pair, phase,         *)
(* phaseTimer, green lock and the light map.                               *)
C19_NegativeDeltaRejected ==
    (Ticked /\ last.deltaTime < 0)
    => /\ adaptiveState.currentPair = last.currentPair
       /\ adaptiveState.currentPhase = last.currentPhase
       /\ adaptiveState.phaseTimer = last.phaseTimer
       /\ adaptiveState.greenLockTime = last.greenLockTime
       /\ lights = last.lights

(* the durations of a settings object are positive *)
ValidSettings(s) == s.GREEN_DURATION > 0 /\ s.YELLOW_DURATION > 0

(* C20 - Config validation: initializing the scheduler with an invalid     *)
(* configuration (here: a non-positive duration) produces no running       *)
(* scheduler.                                                              *)
C20_ConfigValidation ==
    (last.op = "initialize" /\ ~ValidSettings(settings))
    => ~adaptiveState.isActive

----------------------------------------------------------------------------
(* the snapshot has an entry for the direction *)
Has(sensorData, d) == sensorData.defined /\ d \in DOMAIN sensorData.data

(* what the entry of one direction adds to the score of a waiting pair and *)
(* to the score of the green pair, in thousandths; nothing when the entry  *)
(* is missing                                                              *)
WaitingPart(sensorData, d) ==
    IF Has(sensorData, d)
    THEN sensorData.data[d].carsWaiting * sensorData.data[d].waitTime
         + 1000 * sensorData.data[d].carsApproaching
    ELSE 0

FlowingPart(sensorData, d) ==
    IF Has(sensorData, d)
    THEN 1000 * (sensorData.data[d].carsPassed
                 + sensorData.data[d].carsApproaching)
    ELSE 0

(* the other direction of the same pair *)
Partner(d) ==
    IF d = NORTH THEN SOUTH ELSE IF d = SOUTH THEN NORTH
    ELSE IF d = EAST THEN WEST ELSE EAST

(* C21 - Missing sensor data is zero demand: an idle scheduler ticked with *)
(* an absent snapshot stays idle and all red; a pair that goes green from  *)
(* idle has an entry in the snapshot; and at a switch evaluation a         *)
(* direction without an entry adds nothing, so the score of its pair is    *)
(* what the partner direction alone gives.                                 *)
C21_MissingIsZero ==
    /\ (TickedFromIdle /\ ~last.sensorData.defined) => Idle /\ AllRed(lights)
    /\ (TickedFromIdle /\ adaptiveState.currentPair \in PAIRS)
          => \E d \in PairDirs(adaptiveState.currentPair) :
                Has(last.sensorData, d)
    /\ Evaluated
          => /\ \A d \in PairDirs(last.currentPair) :
                   ~Has(last.sensorData, d)
                   => locals.currentScore
                          = FlowingPart(last.sensorData, Partner(d))
             /\ \A d \in PairDirs(Opposite(last.currentPair)) :
                   ~Has(last.sensorData, d)
                   => locals.waitingScore
                          = WaitingPart(last.sensorData, Partner(d))

(* NS was green and the snapshot had an entry for the west only: the green *)
(* score was 0 and the waiting score 5.0, from the west alone              *)
C21_Witness ==
    /\ Evaluated
    /\ last.currentPair = "NS"
    /\ DOMAIN last.sensorData.data = {WEST}
    /\ locals.currentScore = 0
    /\ locals.waitingScore = 5000

----------------------------------------------------------------------------
(* what a controller shows and decides on: everything but the recorded     *)
(* time of the last switch and the reading of the clock                    *)
Observable(c) ==
    [lights |-> c.lights, mode |-> c.mode, settings |-> c.settings,
     fixedState |-> c.fixedState,
     adaptiveState |-> [c.adaptiveState EXCEPT !.lastSwitchTime = 0],
     locals |-> c.locals]

(* C22 - Determinism: two controllers that start from the constructor and  *)
(* get the same sequence of initialize, reset and tick(deltaTime,          *)
(* snapshot) calls show the same lights and are in the same phase, with    *)
(* the same timers and scores, after every call, whatever each of them     *)
(* reads from the wall clock.                                              *)
C22_Determinism ==
    /\ twin.lights = lights
    /\ twin.adaptiveState.currentPair = adaptiveState.currentPair
    /\ twin.adaptiveState.currentPhase = adaptiveState.currentPhase
    /\ Observable(twin) = Observable(this)

(* the two controllers have made the same switch to a green WE at          *)
(* different readings of the clock                                         *)
C22_Witness ==
    /\ TickedFrom(RED)
    /\ adaptiveState.currentPair = "WE"
    /\ adaptiveState.currentPhase = GREEN
    /\ adaptiveState.lastSwitchTime = 1
    /\ twin.adaptiveState.lastSwitchTime = 2
    /\ twin.lights = lights

----------------------------------------------------------------------------
(* C23 - Pair coherence: after every tick north and south show the same    *)
(* colour and east and west show the same colour; the directions of the    *)
(* active pair show the colour of the current phase (green, yellow, or red *)
(* during the clearance), those of the other pair red, and without an      *)
(* active pair all four are red.                                           *)
C23_PairCoherence ==
    last.op = "tick"
    => /\ lights[NORTH] = lights[SOUTH]
       /\ lights[EAST] = lights[WEST]
       /\ adaptiveState.currentPair \in PAIRS
            => /\ adaptiveState.currentPhase \in {GREEN, YELLOW, RED}
               /\ Shows(lights, adaptiveState.currentPair,
                        adaptiveState.currentPhase)
               /\ Shows(lights, Opposite(adaptiveState.currentPair), RED)
       /\ adaptiveState.currentPair \notin PAIRS
            => adaptiveState.currentPair = null /\ AllRed(lights)

(* a tick has left NS yellow, north and south both, and WE red *)
C23_Witness ==
    /\ Ticked
    /\ adaptiveState.currentPair = "NS"
    /\ adaptiveState.currentPhase = YELLOW
    /\ lights[NORTH] = YELLOW
    /\ lights[SOUTH] = YELLOW
    /\ lights[EAST] = RED
    /\ lights[WEST] = RED

----------------------------------------------------------------------------
(* what the entry into a green phase of NS sets up, the approaching        *)
(* aggregates left aside                                                   *)
EntersGreenNS ==
    /\ adaptiveState.currentPair = "NS"
    /\ adaptiveState.currentPhase = GREEN
    /\ adaptiveState.phaseTimer = 0
    /\ adaptiveState.greenLockTime = greenLockDuration
    /\ adaptiveState.nextPair = null
    /\ adaptiveState.firstCarTriggered
    /\ adaptiveState.greenPairScores[NORTH] = 0
    /\ adaptiveState.greenPairScores[SOUTH] = 0
    /\ Shows(lights, "NS", GREEN)
    /\ Shows(lights, "WE", RED)

----------------------------------------------------------------------------
(* C25 - Fairness score: at every switch evaluation the score of the       *)
(* waiting pair is the sum, over the two directions of the pair that is    *)
(* not active, of carsWaiting x front wait + carsApproaching of the tick's *)
(* snapshot: 4.0 for one car at 4 s, 20.0 for five cars with the front one *)
(* at 4 s; the entries of the active pair do not enter it.                 *)
C25_FairnessScore ==
    Evaluated
    => LET other == Opposite(last.currentPair)
           d1 == CHOOSE d \in PairDirs(other) : TRUE
       IN  /\ locals.waitingScore
                 = WaitingPart(last.sensorData, d1)
                   + WaitingPart(last.sensorData, Partner(d1))
           /\ \A d \in PairDirs(other) :
                 (/\ EntryOf(last.sensorData, d) = Entry(1, 4000, 0, 0)
                  /\ EntryOf(last.sensorData, Partner(d)) = ZeroEntry)
                 => locals.waitingScore = 4000
           /\ \A d \in PairDirs(other) :
                 (/\ EntryOf(last.sensorData, d) = Entry(5, 4000, 0, 0)
                  /\ EntryOf(last.sensorData, Partner(d)) = ZeroEntry)
                 => locals.waitingScore = 20000

(* NS was green with cars of its own waiting, approaching and passed, and  *)
(* five cars in the east with the front one at 4 s gave the waiting pair a *)
(* score of 20.0                                                           *)
C25_Witness ==
    /\ Evaluated
    /\ last.currentPair = "NS"
    /\ EntryOf(last.sensorData, NORTH) = Entry(1, 4000, 2, 3)
    /\ EntryOf(last.sensorData, EAST) = Entry(5, 4000, 0, 0)
    /\ EntryOf(last.sensorData, WEST) = ZeroEntry
    /\ locals.waitingScore = 20000

(* C26 - Efficiency score: at every switch evaluation the score of the     *)
(* green pair is the sum, over the two directions of the active pair, of   *)
(* carsPassed + carsApproaching of the tick's snapshot; the waiting cars   *)
(* and the front wait of the active pair and the entries of the other pair *)
(* do not enter it.                                                        *)
C26_EfficiencyScore ==
    Evaluated
    => LET d1 == CHOOSE d \in PairDirs(last.currentPair) : TRUE
       IN  /\ locals.currentScore
                 = FlowingPart(last.sensorData, d1)
                   + FlowingPart(last.sensorData, Partner(d1))
           /\ (\A d \in PairDirs(last.currentPair) :
                  /\ EntryOf(last.sensorData, d).carsPassed = 0
                  /\ EntryOf(last.sensorData, d).carsApproaching = 0)
                 => locals.currentScore = 0

(* WE was green with three cars passed and two approaching in the east,    *)
(* one waiting there and five waiting in the north: its score was 5.0      *)
C26_Witness ==
    /\ Evaluated
    /\ last.currentPair = "WE"
    /\ EntryOf(last.sensorData, EAST) = Entry(1, 4000, 2, 3)
    /\ EntryOf(last.sensorData, NORTH) = Entry(5, 4000, 0, 0)
    /\ locals.currentScore = 5000

----------------------------------------------------------------------------
(* C27 - Flowing green is kept: a switch evaluation at which the waiting   *)
(* pair's score is at most 1.5 times the green pair's score, the green     *)
(* pair's score is above 0 and the green phase has not reached 100 s       *)
(* leaves the pair green.                                                  *)
C27_FlowingGreenKept ==
    (/\ Evaluated
     /\ ~ThresholdHolds
     /\ locals.currentScore > 0
     /\ locals.phaseTimer < maxGreenDuration)
    => /\ adaptiveState.currentPhase = GREEN
       /\ adaptiveState.currentPair = last.currentPair


----------------------------------------------------------------------------
(* Vocabulary of the sensor's properties                                   *)

Snapshot == sensorSystem.sensorData

(* the cars the latest frame of the sensor has counted as waiting *)
Counted(i) ==
    isCarInDetectionZone(road.cars[i]) /\ isWaiting(road.cars[i])

(* C28: in every snapshot of the sensor, a direction that has no waiting   *)
(* car reports a front wait time of 0: the wait of a front car that has    *)
(* cleared is not carried into later snapshots.                            *)
C28_FrontWaitZero ==
    Snapshot.carsWaiting = 0 => Snapshot.waitTime = 0

(* C29: in a snapshot with waiting cars, the car whose wait time is        *)
(* reported is a waiting car of the direction, none of the waiting cars    *)
(* has stopped before it, and the value is the wait of that one car.       *)
C29_LongestWaiter ==
    Snapshot.carsWaiting > 0 =>
        /\ sensorSystem.waitingCars # unset
        /\ Counted(sensorSystem.waitingCars)
        /\ \A i \in 1..NumCars :
               Counted(i) => road.cars[sensorSystem.waitingCars].stoppedAt
                                <= road.cars[i].stoppedAt
        /\ Snapshot.waitTime =
               getWaitTime(road.cars[sensorSystem.waitingCars], road.now)


(* a pair has the green *)
HasGreen(pair) ==
    /\ adaptiveState.currentPair = pair
    /\ adaptiveState.currentPhase = GREEN
    /\ Shows(lights, pair, GREEN)

LeftIdle == mode = ADAPTIVE /\ adaptiveState.isActive
            /\ adaptiveState.currentPair \in PAIRS

(* C30 - No starvation: once the scheduler has left Idle and ticks with a  *)
(* positive deltaTime keep arriving, whatever the snapshots are, each of   *)
(* the two pairs gets the green again and again: from every state on, NS   *)
(* is green at some later state and so is WE.                              *)
C30_NoStarvation ==
    [](LeftIdle => (<>HasGreen("NS") /\ <>HasGreen("WE")))

(* a pair has just got the green from the other one, after its yellow and  *)
(* the red clearance                                                       *)
C30_Witness ==
    /\ HasGreen("NS")
    /\ TickedFrom(RED)
    /\ last.currentPair = "WE"
    /\ Has(last.sensorData, WEST)

----------------------------------------------------------------------------
(* the scheduler is in the red clearance of its active pair *)
InClearance ==
    /\ mode = ADAPTIVE /\ adaptiveState.isActive
    /\ adaptiveState.currentPair \in PAIRS
    /\ adaptiveState.currentPhase = RED

----------------------------------------------------------------------------
(* C32 - No snapshot retention: what a tick decides follows from the       *)
(* snapshot of that tick: a tick makes an idle scheduler green only if its *)
(* own snapshot shows demand for the pair, also when a snapshot with       *)
(* demand from before a reset is still stored, and leaves it idle and all  *)
(* red otherwise; at a switch evaluation both scores are those of the      *)
(* tick's snapshot.                                                        *)
C32_NoRetention ==
    /\ (TickedFromIdle /\ adaptiveState.currentPair \in PAIRS)
          => Demand(last.sensorData, adaptiveState.currentPair) > 0
    /\ (TickedFromIdle /\ Demand(last.sensorData, "NS") = 0
            /\ Demand(last.sensorData, "WE") = 0)
          => Idle /\ AllRed(lights)
    /\ Evaluated
          => /\ locals.waitingScore =
                   Demand(last.sensorData, Opposite(last.currentPair))
             /\ \A d \in PairDirs(last.currentPair) :
                   locals.currentScore =
                       FlowingPart(last.sensorData, d)
                       + FlowingPart(last.sensorData, Partner(d))

(* after a reset the snapshot stored before it still showed demand; the    *)
(* next tick came with a snapshot without demand and the scheduler is idle *)
C32_Witness ==
    /\ TickedFromIdle
    /\ last.storedDemand
    /\ Demand(last.sensorData, "NS") = 0
    /\ Demand(last.sensorData, "WE") = 0
    /\ Idle

----------------------------------------------------------------------------
(* the last operation was a tick of the fixed mode *)
FixedTicked == last.op = "tick" /\ mode = FIXED /\ fixedState.isActive

(* the time a phase of the fixed cycle lasts *)
FixedLimit(phase) ==
    IF phase \in {0, 3} THEN GREEN_DURATION
    ELSE IF phase \in {1, 4} THEN YELLOW_DURATION
    ELSE 3000

(* the lights of a phase of the fixed cycle: NS green, NS yellow, all red, *)
(* WE green, WE yellow, all red                                            *)
FixedLights(phase) ==
    [d \in DIRECTIONS |->
        IF phase = 0 /\ d \in PairDirs("NS") THEN GREEN
        ELSE IF phase = 1 /\ d \in PairDirs("NS") THEN YELLOW
        ELSE IF phase = 3 /\ d \in PairDirs("WE") THEN GREEN
        ELSE IF phase = 4 /\ d \in PairDirs("WE") THEN YELLOW
        ELSE RED]

(* C33 - Fixed mode is an unconditional round-robin: a tick of the fixed   *)
(* mode stays in its phase or moves to the next one of NS green, NS        *)
(* yellow, all red, WE green, WE yellow, all red, never further; it moves  *)
(* exactly when the phase timer with the tick's deltaTime has reached      *)
(* GREEN_DURATION, YELLOW_DURATION or 3 s, whatever the snapshot is; the   *)
(* lights are those of the phase, and a green that follows an all-red      *)
(* phase comes after at least 3 s of all red.                              *)
C33_FixedRoundRobin ==
    FixedTicked =>
        LET elapsed == last.fixedTimer + last.deltaTime
            due == elapsed >= FixedLimit(last.fixedPhase)
        IN  /\ fixedState.currentPhase \in 0..5
            /\ due => /\ fixedState.currentPhase = (last.fixedPhase + 1) % 6
                      /\ fixedState.phaseTimer = 0
            /\ ~due => /\ fixedState.currentPhase = last.fixedPhase
                       /\ fixedState.phaseTimer = elapsed
            /\ lights = FixedLights(fixedState.currentPhase)
            /\ (last.fixedPhase \in {1, 4} /\ due) => AllRed(lights)
            /\ (last.fixedPhase \in {2, 5} /\ due) => redElapsed >= 3000

(* a tick of 20 s in the yellow of NS, with cars waiting in the west, has  *)
(* moved the cycle to the all-red phase and no further                     *)
C33_Witness ==
    /\ FixedTicked
    /\ last.fixedPhase = 1
    /\ last.deltaTime = 20000
    /\ Has(last.sensorData, WEST)
    /\ fixedState.currentPhase = 2
    /\ AllRed(lights)

----------------------------------------------------------------------------
(* the active pair and its phase, before and after the last operation *)
Before == <<last.currentPair, last.currentPhase>>

After == <<adaptiveState.currentPair, adaptiveState.currentPhase>>

(* C34 - At most one phase transition per tick: a tick that begins in Idle *)
(* ends in Idle or in the green of a pair, a tick that begins in a green   *)
(* ends in that green or in the yellow of the same pair, one that begins   *)
(* in a yellow ends in that yellow or in the red clearance of the same     *)
(* pair, and one that begins in a red clearance ends in it or in the green *)
(* of the other pair, however large deltaTime is; the lights it emits are  *)
(* those of the phase it ends in, so a yellow shows yellow on its pair and *)
(* a red clearance shows red everywhere.                                   *)
C34_OneTransitionPerTick ==
    Ticked =>
        /\ TickedFromIdle =>
              \/ adaptiveState.currentPair = null
              \/ \E pair \in PAIRS : After = <<pair, GREEN>>
        /\ TickedFrom(GREEN) =>
              After \in {Before, <<last.currentPair, YELLOW>>}
        /\ TickedFrom(YELLOW) =>
              After \in {Before, <<last.currentPair, RED>>}
        /\ TickedFrom(RED) =>
              After \in {Before, <<Opposite(last.currentPair), GREEN>>}
        /\ \A pair \in PAIRS :
              /\ After = <<pair, YELLOW>> =>
                    Shows(lights, pair, YELLOW)
                    /\ Shows(lights, Opposite(pair), RED)
              /\ After = <<pair, RED>> => AllRed(lights)

(* a tick of 100 s, longer than the yellow and the clearance together, has *)
(* moved a yellow to the red clearance of the same pair                    *)
C34_Witness ==
    /\ TickedFrom(YELLOW)
    /\ last.deltaTime = 100000
    /\ After = <<last.currentPair, RED>>
    /\ AllRed(lights)

----------------------------------------------------------------------------
(* the phase that follows a phase of an active pair in the cycle *)
Successor(pairPhase) ==
    IF pairPhase[2] = GREEN THEN <<pairPhase[1], YELLOW>>
    ELSE IF pairPhase[2] = YELLOW THEN <<pairPhase[1], RED>>
    ELSE <<Opposite(pairPhase[1]), GREEN>>

(* C35 - No return to Idle: a tick that begins with an active pair ends    *)
(* with an active pair, in the same phase or in the one that follows it in *)
(* the cycle Green, Yellow, RedClearance, Green of the other pair; only    *)
(* initialize and reset leave the scheduler in Idle.                       *)
C35_NoReturnToIdle ==
    /\ (Ticked /\ last.currentPair \in PAIRS) =>
          /\ LeftIdle
          /\ After # Before => After = Successor(Before)
    /\ (~Ticked /\ last.isActive /\ last.currentPair \in PAIRS /\ Idle) =>
          last.op \in {"initialize", "reset"}
    /\ (last.op \in {"initialize", "reset"} /\ mode = ADAPTIVE) => Idle

(* a tick without a snapshot has ended the red clearance and given the     *)
(* green to the other pair                                                 *)
C35_Witness ==
    /\ TickedFrom(RED)
    /\ ~last.sensorData.defined
    /\ After = <<Opposite(last.currentPair), GREEN>>
    /\ LeftIdle

----------------------------------------------------------------------------
----------------------------------------------------------------------------
----------------------------------------------------------------------------
(* the step is a tick in a green phase whose lock outlasts the tick *)
LockedTickStep ==
    /\ TickStep
    /\ adaptiveState.currentPair \in PAIRS
    /\ adaptiveState.currentPhase = GREEN
    /\ adaptiveState.greenLockTime - last'.deltaTime > 0

(* C38 - Locked tick frame: a tick in a green phase whose lock is still    *)
(* above 0 after the tick's deltaTime adds deltaTime to phaseTimer and     *)
(* takes it from the lock; it makes no switch evaluation and leaves the    *)
(* active pair, the phase, nextPair, lastSwitchTime and the light map as   *)
(* they were, whatever the snapshot contains.                              *)
C38_LockedTickFrame ==
    [][LockedTickStep =>
          /\ adaptiveState'.phaseTimer
                = adaptiveState.phaseTimer + last'.deltaTime
          /\ adaptiveState'.greenLockTime
                = adaptiveState.greenLockTime - last'.deltaTime
          /\ adaptiveState'.greenLockTime > 0
          /\ adaptiveState'.currentPair = adaptiveState.currentPair
          /\ adaptiveState'.currentPhase = adaptiveState.currentPhase
          /\ adaptiveState'.nextPair = adaptiveState.nextPair
          /\ adaptiveState'.lastSwitchTime = adaptiveState.lastSwitchTime
          /\ adaptiveState'.isActive = adaptiveState.isActive
          /\ adaptiveState'.firstCarTriggered = adaptiveState.firstCarTriggered
          /\ ~locals'.evaluated
          /\ lights' = lights
          /\ mode' = mode /\ settings' = settings
          /\ fixedState' = fixedState]_vars

(* a tick of 1 s under the lock, with demand on the red pair that an       *)
(* evaluation would have answered with a switch, has left the green as it  *)
(* was                                                                     *)
C38_Witness ==
    /\ TickedFrom(GREEN)
    /\ last.deltaTime = 1000
    /\ last.greenLockTime - last.deltaTime > 0
    /\ Demand(last.sensorData, Opposite(last.currentPair)) > 0
    /\ adaptiveState.greenLockTime = last.greenLockTime - 1000
    /\ adaptiveState.currentPhase = GREEN
    /\ lights = last.lights

----------------------------------------------------------------------------
(* some direction of the pair shows one of the colours *)
SomeShows(l, pair, colours) == \E d \in PairDirs(pair) : l[d] \in colours

(* C39 - Clearance across mode changes: whatever the mode of each update   *)
(* is, the light map after an update shows no pair green when the light    *)
(* map after the update before it showed the other pair green or yellow,   *)
(* and after an update in fixed mode the light map is the one of           *)
(* fixedState.currentPhase.                                                *)
C39_ClearanceAcrossModes ==
    last.op = "tick" =>
        /\ \A pair \in PAIRS :
              ~(/\ SomeShows(lights, pair, {GREEN})
                /\ SomeShows(last.lights, Opposite(pair), {GREEN, YELLOW}))
        /\ mode = FIXED => lights = FixedLights(fixedState.currentPhase)

----------------------------------------------------------------------------
(* C40 - Cars obey the light: an update changes the state of a car from    *)
(* approaching or waiting to crossing only when the light of the car's     *)
(* direction is green in that update; a waiting car whose light is red or  *)
(* yellow is still waiting after the step, with speed 0 and where it was.  *)
C40_CarsObeyLight ==
    [][\A i \in 1..NumCars :
          /\ (/\ road.cars[i].state \in {"approaching", "waiting"}
              /\ road'.cars[i].state = "crossing") =>
                road.lightStates = GREEN
          /\ (/\ road.cars[i].state = "waiting"
              /\ road.lightStates \in {RED, YELLOW}) =>
                /\ road'.cars[i].state = "waiting"
                /\ road'.cars[i].speed = 0
                /\ road'.cars[i].place = road.cars[i].place]_vars

(* a car that had stopped before the stop line is crossing, with speed     *)
(* above 0, under a green light, while another one still waits in the      *)
(* zone with speed 0                                                       *)
C40_Witness ==
    /\ road.lightStates = GREEN
    /\ \E i, j \in 1..NumCars :
          /\ road.cars[i].state = "crossing"
          /\ road.cars[i].stoppedAt # unset
          /\ road.cars[i].speed > 0
          /\ road.cars[j].state = "waiting"
          /\ road.cars[j].speed = 0

====
